---- MODULE Spec2Model ----
(***************************************************************************)
(* State-machine model of the scene deserialization engine of nunuStudio   *)
(* (source/core/loaders/ObjectLoader.js): the top-level parse(json,onLoad) *)
(* with its nine resource sub-loaders, the recursive object graph builder  *)
(* parseObject, the skeleton binder and the type-specific post-processing. *)
(*                                                                         *)
(* The JSON document is read lazily: each action draws the part of the     *)
(* document the code reads at that point (a resource array, a node record) *)
(* from a bounded set, and the records read so far are kept in recs.       *)
(*                                                                         *)
(* Two editor components are modelled beside it, each under its own        *)
(* specification: the SSAO pass with its sample kernel                     *)
(* (source/core/postprocessing/pass/SSAONOHPass.js, SpecSSAO) and the      *)
(* planar editor controls (EditorPlanarControls, SpecControls).            *)
(***************************************************************************)
EXTENDS Integers, Sequences, FiniteSets, TLC

\* Size bound of one document: node records, resource records, list entries
\* and optional fields each count one unit.
MaxDoc == 4
\* Longest cameras / levels / bones / skeletons list of one record.
MaxRefs == 2
\* Number of parse calls made through one loader.
MaxParses == 2
\* Longest sample kernel of an SSAO pass.
MaxKernel == 72
\* Largest distance of the planar controls, largest coordinate of their
\* center, and number of updateControls calls followed.
MaxDistance == 40
MaxCenter == 10
MaxUpdates == 4

VARIABLES
    vocab,        \* which type tags and optional fields the document uses
    pc,           \* position inside ObjectLoader.parse
    budget,       \* units of the document not read yet
    containers,   \* the loader's ResourceContainer: kind -> set of resource uuids
    images,       \* json.images as read by parseImages: [form, n]
    fetching,     \* asynchronous image fetches started and not yet resolved
    onLoadGiven,  \* whether the caller supplied onLoad
    onLoadCalls,  \* number of invocations of onLoad
    onLoadArg,    \* node handed to the last onLoad invocation (0: none)
    stack,        \* active parseObject invocations, innermost last
    recs,         \* node records read so far, indexed by node id
    nodes,        \* objects built so far, indexed by node id
    result,       \* node returned by parse (0: nothing returned)
    error,        \* exception that left parse: [kind, at]
    doc,          \* number of the parse call on this loader (0: none yet)
    texturePath,  \* the loader's texturePath, a string of characters
    loading,      \* urls handed to FileLoader whose text has not arrived
    called,       \* methods parse has called so far in this call, in order
    kernelSize,   \* SSAONOHPass._kernelSize
    kernel,       \* SSAONOHPass.kernel, the sample vectors
    noiseTexture, \* SSAONOHPass.noiseTexture (0: null, n: the n-th generated)
    uniforms,     \* ssaoMaterial.uniforms: what kernel and tNoise refer to
    mode,         \* EditorPlanarControls.mode
    orientation,  \* EditorPlanarControls.orientation, <<x, y>>
    distance,     \* EditorPlanarControls.distance
    center,       \* EditorPlanarControls.center, <<x, y, z>>
    updates,      \* number of updateControls calls made
    lastCall      \* the last method called on the controls, with the mouse
                  \* state it was given

\* The state of the loader that outlives one parse call.
session == <<doc, texturePath, loading>>

\* The state of an ObjectLoader and of its parse call.
loader == <<vocab, pc, budget, containers, images, fetching, onLoadGiven,
            onLoadCalls, onLoadArg, stack, recs, nodes, result, error,
            doc, texturePath, loading, called>>

\* The state of an SSAONOHPass and of an EditorPlanarControls.
ssao == <<kernelSize, kernel, noiseTexture, uniforms>>
controls == <<mode, orientation, distance, center, updates, lastCall>>

vars == <<vocab, pc, budget, containers, images, fetching, onLoadGiven,
          onLoadCalls, onLoadArg, stack, recs, nodes, result, error,
          doc, texturePath, loading, called,
          kernelSize, kernel, noiseTexture, uniforms,
          mode, orientation, distance, center, updates, lastCall>>

Undefined == "undefined"
\* undefined / null result of a tree lookup; also a bone that is in no tree.
NoNode == 0

----------------------------------------------------------------------------
(* The document vocabulary.                                                *)

\* UUIDs a cameras / levels / bones entry may name.  Node records carry the
\* uuids 1, 2, ... in the order they are read, 0 is the uuid of no node.
Refs == 0 .. (MaxRefs + 1)
Distances == {10, 50}
SkeletonIds == {"S1", "S2"}

Kinds == {"resources", "shapes", "geometries", "images", "videos", "audio",
          "fonts", "textures", "materials"}

Vocabs ==
    { [name |-> "resources", types |-> {"Group", "Program"},
       feats |-> {"resources", "onLoad"}],
      [name |-> "fallback", types |-> {"Program", "Scene", "LOD", "Mesh"},
       feats |-> {"throws", "levels"}],
      [name |-> "forward", types |-> {"FutureWidget", "DirectionalLight"},
       feats |-> {"shadow"}],
      [name |-> "scene", types |-> {"Scene", "PerspectiveCamera", "Group"},
       feats |-> {"cameras"}],
      [name |-> "lod", types |-> {"LOD", "Mesh", "Group"},
       feats |-> {"levels"}],
      [name |-> "skeleton", types |-> {"SkinnedMesh", "Bone"},
       feats |-> {"skeleton", "skeletons"}],
      [name |-> "flags", types |-> {"Mesh", "FutureWidget"},
       feats |-> {"flags", "throws"}],
      [name |-> "transform", types |-> {"Mesh"},
       feats |-> {"transform"}],
      [name |-> "animations", types |-> {"Mesh"},
       feats |-> {"animations"}],
      [name |-> "defaultCamera", types |-> {"Scene", "Group"},
       feats |-> {"defaultCamera"}] }

SeqsUpTo(S, n) == UNION { [1..m -> S] : m \in 0..n }

Min(a, b) == IF a < b THEN a ELSE b

----------------------------------------------------------------------------
(* Collaborating scene-graph classes, as far as parseObject uses them.     *)

\* Class instantiated by the dispatch switch for a type tag.  Group and
\* every unknown tag give the generic group node, Container.
KindOf(type) ==
    IF type \in {"Program", "Scene", "LOD", "DirectionalLight", "SkinnedMesh",
                 "Mesh", "Bone", "PerspectiveCamera"}
    THEN type
    ELSE "Container"

\* Only lights carry a shadow-map configuration object (object.shadow).
HasShadow(kind) == kind = "DirectionalLight"

NoSkeleton == [key |-> Undefined, bones |-> <<>>, boneInverses |-> 0]

EmptyContainers == [k \in Kinds |-> {}]

\* A freshly constructed object of class kind.
NewObject(kind) ==
    [kind |-> kind, uuid |-> NoNode, parent |-> NoNode, children |-> <<>>,
     cameras |-> <<>>, levels |-> <<>>, skeletonUUID |-> Undefined,
     skeleton |-> NoSkeleton, shadowSet |-> FALSE,
     resources |-> EmptyContainers,
     visible |-> TRUE, castShadow |-> FALSE, receiveShadow |-> FALSE,
     position |-> 0, rotation |-> 0, quaternion |-> <<0, 1>>,
     scale |-> <<1, 1>>, animations |-> <<>>, defaultCamera |-> <<>>]

(* Transforms, reduced to the plane and to diagonal matrices: a matrix is  *)
(* <<m11, m22, tx>> (the diagonal of its rotation-scale block and its x     *)
(* translation), a position is its x, a scale is <<sx, sy>>, a quaternion   *)
(* is <<z, w>> (<<0, 1>>: identity, <<1, 0>>: half turn) and an Euler       *)
(* rotation is its angle about z in degrees (0 or 180).                     *)

Abs(x) == IF x < 0 THEN -x ELSE x

\* Euler.setFromQuaternion and Quaternion.setFromEuler.
EulerFromQuaternion(q) == IF q = <<1, 0>> THEN 180 ELSE 0
QuaternionFromEuler(r) == IF r = 180 THEN <<1, 0>> ELSE <<0, 1>>

\* Matrix4.decompose: the scale is the length of each column, sx negated
\* when the determinant is negative; the position is the translation; the
\* quaternion is that of the matrix with the scale divided out.
Decompose(m) ==
    LET det == m[1] * m[2]
        sx == IF det < 0 THEN -Abs(m[1]) ELSE Abs(m[1])
        sy == Abs(m[2])
    IN [position |-> m[3],
        quaternion |-> IF m[1] \div sx = -1 /\ m[2] \div sy = -1
                       THEN <<1, 0>> ELSE <<0, 1>>,
        scale |-> <<sx, sy>>]

\* Object3D ties rotation and quaternion together: a write to either one
\* (onRotationChange, onQuaternionChange) rewrites the other.
SetQuaternion(object, q) ==
    [object EXCEPT !.quaternion = q, !.rotation = EulerFromQuaternion(q)]

SetRotation(object, r) ==
    [object EXCEPT !.rotation = r, !.quaternion = QuaternionFromEuler(r)]

RemoveAt(s, i) == SubSeq(s, 1, i - 1) \o SubSeq(s, i + 1, Len(s))

InsertAt(s, i, e) == SubSeq(s, 1, i - 1) \o <<e>> \o SubSeq(s, i, Len(s))

RECURSIVE IndexOf(_, _, _)
IndexOf(s, e, i) ==
    IF i > Len(s) THEN 0
    ELSE IF s[i] = e THEN i
    ELSE IndexOf(s, e, i + 1)

\* Object3D.add(child): a node added to itself is refused; a node that has
\* a parent is removed from it first; the node is pushed last.
Add(ns, o, child) ==
    IF child = o THEN ns
    ELSE
        LET old == ns[child].parent
            ns1 == IF old = NoNode THEN ns
                   ELSE [ns EXCEPT ![old].children =
                             RemoveAt(@, IndexOf(@, child, 1))]
        IN [ns1 EXCEPT ![child].parent = o,
                       ![o].children = Append(@, child)]

\* Object3D.getObjectByProperty("uuid", u): the node itself, then its
\* descendants depth-first in child order; NoNode when there is none.
RECURSIVE GetObjectByProperty(_, _, _)
RECURSIVE SearchChildren(_, _, _, _)
GetObjectByProperty(ns, o, u) ==
    IF ns[o].uuid = u THEN o
    ELSE SearchChildren(ns, ns[o].children, 1, u)

SearchChildren(ns, cs, i, u) ==
    IF i > Len(cs) THEN NoNode
    ELSE LET r == GetObjectByProperty(ns, cs[i], u)
         IN IF r # NoNode THEN r ELSE SearchChildren(ns, cs, i + 1, u)

\* Scene.getCamera(uuid): lookup by uuid in the scene's tree, null if absent.
GetCamera(ns, o, u) == GetObjectByProperty(ns, o, u)

\* Object3D.traverse: the node, then each child's subtree, in child order.
RECURSIVE Traverse(_, _)
RECURSIVE TraverseAll(_, _, _)
Traverse(ns, o) == <<o>> \o TraverseAll(ns, ns[o].children, 1)

TraverseAll(ns, cs, i) ==
    IF i > Len(cs) THEN <<>>
    ELSE Traverse(ns, cs[i]) \o TraverseAll(ns, cs, i + 1)

\* LOD.addLevel(child, distance): the level is spliced in before the first
\* level of greater distance, then the child is (re-)added to the LOD.
RECURSIVE LevelSlot(_, _, _)
LevelSlot(levels, dist, l) ==
    IF l > Len(levels) THEN l
    ELSE IF dist < levels[l].distance THEN l
    ELSE LevelSlot(levels, dist, l + 1)

AddLevel(ns, o, child, dist) ==
    LET ns1 == [ns EXCEPT ![o].levels =
                    InsertAt(@, LevelSlot(@, dist, 1),
                             [distance |-> dist, object |-> child])]
    IN Add(ns1, o, child)

----------------------------------------------------------------------------
(* ObjectLoader: skeletons.                                                *)

\* Variant of ParseBones: a bone that is not found is skipped (continue)
\* instead of being replaced by a new Bone.
RECURSIVE ParseBonesSkipMissing(_, _, _, _)
ParseBonesSkipMissing(ns, object, boneParams, j) ==
    IF j > Len(boneParams) THEN [bones |-> <<>>, boneInverses |-> 0]
    ELSE LET bone == GetObjectByProperty(ns, object, boneParams[j])
             rest == ParseBonesSkipMissing(ns, object, boneParams, j + 1)
         IN IF bone = NoNode THEN rest
            ELSE [bones |-> <<bone>> \o rest.bones,
                  boneInverses |-> 1 + rest.boneInverses]

\* parseSkeletons, inner loop over boneParams from index j: the bones and
\* the number of bone inverses pushed.  A bone not found in the tree of
\* object is replaced by a new Bone, which is in no tree (NoNode).
RECURSIVE ParseBones(_, _, _, _)
ParseBones(ns, object, boneParams, j) ==
    IF j > Len(boneParams) THEN [bones |-> <<>>, boneInverses |-> 0]
    ELSE LET bone == GetObjectByProperty(ns, object, boneParams[j])
             rest == ParseBones(ns, object, boneParams, j + 1)
         IN [bones |-> <<bone>> \o rest.bones,
             boneInverses |-> 1 + rest.boneInverses]

\* parseSkeletons(json, object): the map uuid -> Skeleton, filled entry by
\* entry from index i; a later entry of the same uuid replaces an earlier.
RECURSIVE ParseSkeletonsFrom(_, _, _, _, _)
ParseSkeletonsFrom(ns, object, json, i, skeletons) ==
    IF i > Len(json) THEN skeletons
    ELSE LET skeletonParams == json[i]
             built == ParseBones(ns, object, skeletonParams.bones, 1)
             skeleton == [key |-> skeletonParams.uuid, bones |-> built.bones,
                          boneInverses |-> built.boneInverses]
         IN ParseSkeletonsFrom(ns, object, json, i + 1,
                [u \in DOMAIN skeletons \cup {skeletonParams.uuid} |->
                    IF u = skeletonParams.uuid THEN skeleton
                    ELSE skeletons[u]])

parseSkeletons(ns, object, json) ==
    ParseSkeletonsFrom(ns, object, json, 1, [u \in {} |-> NoSkeleton])

\* bindSkeletons, the callback of traverse applied to the nodes order[i..]:
\* a skinned mesh with a pending skeletonUUID is bound when the map has the
\* uuid and only warned about otherwise; skeletonUUID is deleted either way.
RECURSIVE BindEach(_, _, _, _)
BindEach(ns, order, i, skeletons) ==
    IF i > Len(order) THEN ns
    ELSE LET obj == order[i]
         IN IF ns[obj].kind = "SkinnedMesh" /\ ns[obj].skeletonUUID # Undefined
            THEN LET bound ==
                         IF ns[obj].skeletonUUID \in DOMAIN skeletons
                         THEN [ns EXCEPT ![obj].skeleton =
                                   skeletons[ns[obj].skeletonUUID]]
                         ELSE ns
                 IN BindEach([bound EXCEPT ![obj].skeletonUUID = Undefined],
                             order, i + 1, skeletons)
            ELSE BindEach(ns, order, i + 1, skeletons)

bindSkeletons(ns, object, skeletons) ==
    IF DOMAIN skeletons = {} THEN ns
    ELSE BindEach(ns, Traverse(ns, object), 1, skeletons)

----------------------------------------------------------------------------
(* ObjectLoader: animations.                                               *)

\* THREE.AnimationClip.parse(json): the clip of a clip record.
AnimationClipParse(json) == <<"clip", json>>

\* Array.prototype.push called with no argument: nothing is appended.
PushNothing(array) == array

\* parseAnimations(array), the loop from index i (lines 317-327): a clip
\* is parsed from each record and push is called without it.
RECURSIVE ParseAnimationsFrom(_, _, _)
ParseAnimationsFrom(array, i, animations) ==
    IF i > Len(array) THEN animations
    ELSE LET clip == AnimationClipParse(array[i])
         IN ParseAnimationsFrom(array, i + 1, PushNothing(animations))

parseAnimations(array) == ParseAnimationsFrom(array, 1, <<>>)

----------------------------------------------------------------------------
(* ObjectLoader.parseObject: type-specific post-processing.                *)

\* Outcome of a step that may throw.
Ok(ns) == [ns |-> ns, raised |-> FALSE]
Raised(ns) == [ns |-> ns, raised |-> TRUE]

\* A cameras entry is the raw uuid from the record or a resolved node.
RawCamera(u) == <<"uuid", u>>
CameraNode(n) == <<"node", n>>

\* The Scene loop: entry i is replaced by its camera, or spliced out when
\* getCamera returns null; i is incremented in both cases.
RECURSIVE SceneCameras(_, _, _, _)
SceneCameras(ns, object, cameras, i) ==
    IF i > Len(cameras) THEN cameras
    ELSE LET camera == GetCamera(ns, object, cameras[i][2])
         IN IF camera # NoNode
            THEN SceneCameras(ns, object,
                              [cameras EXCEPT ![i] = CameraNode(camera)], i + 1)
            ELSE SceneCameras(ns, object, RemoveAt(cameras, i), i + 1)

\* The LOD loop from index l.  addLevel exists on LOD objects only.
RECURSIVE LODLevels(_, _, _, _)
LODLevels(ns, object, levels, l) ==
    IF l > Len(levels) THEN Ok(ns)
    ELSE LET level == levels[l]
             child == GetObjectByProperty(ns, object, level.object)
         IN IF child = NoNode THEN LODLevels(ns, object, levels, l + 1)
            ELSE IF ns[object].kind # "LOD" THEN Raised(ns)
            ELSE LODLevels(AddLevel(ns, object, child, level.distance),
                           object, levels, l + 1)

\* Variant of TypePostProcess: a Program is not handed the resources.
TypePostProcessNoAbsorb(ns, object, data, res) ==
    IF data.type = "Program"
    THEN IF ns[object].kind = "Program" THEN Ok(ns) ELSE Raised(ns)
    ELSE IF data.type = "Scene"
    THEN IF ns[object].kind = "Scene"
         THEN Ok([ns EXCEPT ![object].cameras =
                      SceneCameras(ns, object, @, 1)])
         ELSE Raised(ns)
    ELSE IF data.type = "LOD"
    THEN IF data.hasLevels
         THEN LODLevels(ns, object, data.levels, 1)
         ELSE Raised(ns)
    ELSE Ok(ns)

\* Lines 1056-1091: the branch is chosen by data.type, not by the class of
\* the object built.  copyResources exists on Program objects only, cameras
\* on Scene objects only; data.levels is read without a guard.
TypePostProcess(ns, object, data, res) ==
    IF data.type = "Program"
    THEN IF ns[object].kind = "Program"
         THEN Ok([ns EXCEPT ![object].resources = res])
         ELSE Raised(ns)
    ELSE IF data.type = "Scene"
    THEN IF ns[object].kind = "Scene"
         THEN Ok([ns EXCEPT ![object].cameras =
                      SceneCameras(ns, object, @, 1)])
         ELSE Raised(ns)
    ELSE IF data.type = "LOD"
    THEN IF data.hasLevels
         THEN LODLevels(ns, object, data.levels, 1)
         ELSE Raised(ns)
    ELSE Ok(ns)

\* Lines 1044-1091, run once all children are attached.
PostProcess(ns, object, data, res) ==
    LET ns1 == IF data.hasSkeletons
               THEN bindSkeletons(ns, object,
                                  parseSkeletons(ns, object, data.skeletons))
               ELSE ns
        ns2 == IF data.hasAnimations
               THEN [ns1 EXCEPT ![object].animations =
                         parseAnimations(data.animations)]
               ELSE ns1
    IN TypePostProcess(ns2, object, data, res)

----------------------------------------------------------------------------
(* Node records of the document.                                           *)

Flag(feat) == IF feat \in vocab.feats THEN BOOLEAN ELSE {FALSE}

Absent == [has |-> FALSE, list |-> <<>>]

Lists(S, b) == {Absent} \cup
               {[has |-> TRUE, list |-> l] : l \in SeqsUpTo(S, Min(MaxRefs, b))}

CamerasOpts(type, b) ==
    IF type = "Scene" /\ "cameras" \in vocab.feats
    THEN Lists(Refs, b) ELSE {Absent}

LevelsOpts(type, b) ==
    IF type = "LOD" /\ "levels" \in vocab.feats
    THEN Lists([object : Refs, distance : Distances], b) ELSE {Absent}

SkeletonOpts(type) ==
    IF type = "SkinnedMesh" /\ "skeleton" \in vocab.feats
    THEN {Undefined, "S1"} ELSE {Undefined}

SkeletonEntries(b) ==
    IF b < 1 THEN {}
    ELSE {[uuid |-> u, bones |-> bs] :
             u \in SkeletonIds, bs \in SeqsUpTo(Refs, Min(MaxRefs, b - 1))}

RECURSIVE SkeletonBlocks(_, _)
SkeletonBlocks(b, n) ==
    {<<>>} \cup
    (IF n = 0 THEN {}
     ELSE UNION { { <<e>> \o rest :
                      rest \in SkeletonBlocks(b - 1 - Len(e.bones), n - 1) } :
                  e \in SkeletonEntries(b) })

SkeletonsOpts(b) ==
    IF "skeletons" \in vocab.feats
    THEN {Absent} \cup
         {[has |-> TRUE, list |-> l] : l \in SkeletonBlocks(b, MaxRefs)}
    ELSE {Absent}

RECURSIVE BonesIn(_, _)
BonesIn(block, i) ==
    IF i > Len(block) THEN 0
    ELSE Len(block[i].bones) + BonesIn(block, i + 1)

\* Values of a render flag in a record: absent, the booleans, and a value
\* that is neither (a number, a string).
FlagOpts == IF "flags" \in vocab.feats
            THEN {Undefined, "true", "false", "other"} ELSE {Undefined}

\* Values of the transform fields of a record: <<>> when the field is
\* absent, <<v>> when it is present with value v.
TransformOpts(values) == IF "transform" \in vocab.feats
                         THEN {<<>>} \cup {<<v>> : v \in values} ELSE {<<>>}
Matrices == { <<1, 1, 0>>, <<-2, -2, 4>>, <<-1, 3, 4>> }
Positions == {7}
Rotations == {0, 180}
Quaternions == { <<0, 1>>, <<1, 0>> }
Scales == { <<5, 5>> }

\* The animations array of a record, of clip records named by a string.
AnimationsOpts(b) ==
    IF "animations" \in vocab.feats
    THEN Lists({"walk", "run"}, b) ELSE {Absent}

\* The defaultCamera field of a Scene record: absent, the node record of a
\* camera, or a document whose object field is that node record.
CameraRecord == [type |-> "PerspectiveCamera", uuid |-> "camera"]
NoJson == [form |-> "undefined"]
DefaultCameraOpts(type) ==
    IF type = "Scene" /\ "defaultCamera" \in vocab.feats
    THEN {NoJson, [form |-> "record", record |-> CameraRecord],
          [form |-> "document", object |-> CameraRecord]}
    ELSE {NoJson}

BoolCost(f) == IF f THEN 1 ELSE 0

FieldCost(v) == IF v = Undefined THEN 0 ELSE 1

\* A list field takes one unit per entry, and one when it is empty.
ListCost(has, list) == IF has /\ list = <<>> THEN 1 ELSE Len(list)

\* Units of the document a record takes besides its own: its optional
\* fields, its list entries and its child records.
Cost(data) ==
    BoolCost(data.throws) + BoolCost(data.shadow) + data.nchildren
    + ListCost(data.hasCameras, data.cameras)
    + ListCost(data.hasLevels, data.levels)
    + ListCost(data.hasSkeletons, data.skeletons)
    + BonesIn(data.skeletons, 1)
    + FieldCost(data.visible) + FieldCost(data.castShadow)
    + FieldCost(data.receiveShadow)
    + Len(data.matrix) + Len(data.position) + Len(data.rotation)
    + Len(data.quaternion) + Len(data.scale)
    + ListCost(data.hasAnimations, data.animations)
    + BoolCost(data.defaultCamera # NoJson)

\* The node records of uuid id that fit in b units.  parent: the record
\* whose children map holds this one (NoNode for json.object); throws: the
\* record makes its variant constructor throw (a missing resource, a
\* malformed field); shadow: data.shadow is present.
Records(id, parent, b) ==
    UNION { { [type |-> type, uuid |-> id, parent |-> parent,
               throws |-> t, shadow |-> s,
               nchildren |-> k,
               hasCameras |-> c.has, cameras |-> c.list,
               hasLevels |-> l.has, levels |-> l.list,
               skeleton |-> sk,
               hasSkeletons |-> ss.has, skeletons |-> ss.list,
               visible |-> vi, castShadow |-> cs, receiveShadow |-> rs,
               matrix |-> ma, position |-> po, rotation |-> ro,
               quaternion |-> qu, scale |-> sc,
               hasAnimations |-> an.has, animations |-> an.list,
               defaultCamera |-> dc] :
                 t \in Flag("throws"), s \in Flag("shadow"), k \in 0..b,
                 c \in CamerasOpts(type, b), l \in LevelsOpts(type, b),
                 sk \in SkeletonOpts(type), ss \in SkeletonsOpts(b),
                 vi \in FlagOpts, cs \in FlagOpts, rs \in FlagOpts,
                 ma \in TransformOpts(Matrices),
                 po \in TransformOpts(Positions),
                 ro \in TransformOpts(Rotations),
                 qu \in TransformOpts(Quaternions),
                 sc \in TransformOpts(Scales),
                 an \in AnimationsOpts(b),
                 dc \in DefaultCameraOpts(type) } :
            type \in vocab.types }

----------------------------------------------------------------------------
(* ObjectLoader.parseObject.                                               *)

\* json.object, for the json handed to the nested parse call: the object
\* field of a document, undefined for anything that has none.
ObjectField(json) ==
    IF json.form = "document" THEN [form |-> "record", record |-> json.object]
    ELSE NoJson

\* parseObject(data) called by the nested parse.  On undefined, data.type
\* throws inside the try (line 425) and the catch block throws again on
\* data.uuid (line 961); a camera record builds its camera.
ParseCameraObject(data) ==
    IF data = NoJson THEN [raised |-> TRUE, object |-> <<>>]
    ELSE [raised |-> FALSE,
          object |-> << [NewObject(KindOf(data.record.type)) EXCEPT
                            !.uuid = data.record.uuid] >>]

\* this.parse(data.defaultCamera), lines 59-82 run on the field: the nine
\* sub-loaders are handed json.resources ... json.materials, all undefined
\* here, and store nothing; then parseObject(json.object).
ParseDefaultCamera(json) == ParseCameraObject(ObjectField(json))

\* Lines 423-963: the dispatch switch inside try/catch.  A constructor that
\* throws leaves a new Container.
Construct(data) ==
    IF data.throws THEN NewObject("Container")
    ELSE IF data.type = "Scene" /\ data.defaultCamera # NoJson
            /\ ParseDefaultCamera(data.defaultCamera).raised
    THEN NewObject("Container")
    ELSE LET created == NewObject(KindOf(data.type))
             object == IF data.type = "Scene" /\ data.defaultCamera # NoJson
                       THEN [created EXCEPT !.defaultCamera =
                                ParseDefaultCamera(data.defaultCamera).object]
                       ELSE created
         IN IF data.type = "Scene" /\ data.hasCameras
            THEN [object EXCEPT !.cameras =
                      [i \in 1..Len(data.cameras) |-> RawCamera(data.cameras[i])]]
            ELSE IF data.type = "SkinnedMesh"
            THEN [object EXCEPT !.skeletonUUID = data.skeleton]
            ELSE object

\* Lines 1011-1014 read object.shadow, which only lights have.
ShadowThrows(object, data) == data.shadow /\ ~HasShadow(object.kind)

\* A render flag that is set unless the record says false.
UnlessFalse(v) == v # "false"

\* data.flag === true.
StrictlyTrue(v) == v = "true"

\* Variant of Transform: the matrix is applied after the component fields.
TransformMatrixLast(object, data) ==
    LET o1 == IF data.position = <<>> THEN object
              ELSE [object EXCEPT !.position = data.position[1]]
        o2 == IF data.rotation = <<>> THEN o1
              ELSE SetRotation(o1, data.rotation[1])
        o3 == IF data.quaternion = <<>> THEN o2
              ELSE SetQuaternion(o2, data.quaternion[1])
        o4 == IF data.scale = <<>> THEN o3
              ELSE [o3 EXCEPT !.scale = data.scale[1]]
    IN IF data.matrix = <<>> THEN o4
       ELSE LET d == Decompose(data.matrix[1])
            IN [SetQuaternion(o4, d.quaternion) EXCEPT
                   !.position = d.position, !.scale = d.scale]

\* Lines 993-1003: the matrix, when present, is decomposed into position,
\* quaternion and scale; then position, rotation, quaternion and scale are
\* written, in that order, each when present.
Transform(object, data) ==
    LET o0 == IF data.matrix = <<>> THEN object
              ELSE LET d == Decompose(data.matrix[1])
                   IN [SetQuaternion(object, d.quaternion) EXCEPT
                          !.position = d.position, !.scale = d.scale]
        o1 == IF data.position = <<>> THEN o0
              ELSE [o0 EXCEPT !.position = data.position[1]]
        o2 == IF data.rotation = <<>> THEN o1
              ELSE SetRotation(o1, data.rotation[1])
        o3 == IF data.quaternion = <<>> THEN o2
              ELSE SetQuaternion(o2, data.quaternion[1])
    IN IF data.scale = <<>> THEN o3
       ELSE [o3 EXCEPT !.scale = data.scale[1]]

\* Lines 965-1008: the fields set before data.shadow is looked at.
FieldsBeforeShadow(object, data) ==
    [Transform(object, data) EXCEPT
                   !.uuid = data.uuid,
                   !.animations =
                       IF data.hasAnimations
                       THEN [i \in 1..Len(data.animations) |->
                                AnimationClipParse(data.animations[i])]
                       ELSE @,
                   !.castShadow = StrictlyTrue(data.castShadow),
                   !.receiveShadow = StrictlyTrue(data.receiveShadow)]

\* Lines 965-1021: the fields every node gets.
CommonFields(object, data) ==
    [FieldsBeforeShadow(object, data) EXCEPT
        !.shadowSet = data.shadow,
        !.visible = StrictlyTrue(data.visible)]

Raise(kind, at) ==
    /\ pc' = "raised"
    /\ error' = [kind |-> kind, at |-> at]
    /\ stack' = <<>>

Top == stack[Len(stack)]

\* parseObject(data) up to the children loop: called by parse for the root
\* record and by the children loop of the innermost invocation.
ParseObjectEnter ==
    /\ pc = "parseObject"
    /\ \/ stack = <<>> /\ nodes = <<>>
       \/ stack # <<>> /\ Top.done < recs[Top.rec].nchildren
    /\ \E data \in Records(Len(nodes) + 1,
                            IF stack = <<>> THEN NoNode ELSE Top.rec, budget) :
          LET object == Construct(data)
              id == Len(nodes) + 1
          IN /\ Cost(data) <= budget
             /\ recs' = Append(recs, data)
             /\ budget' = budget - Cost(data)
             /\ called' = IF stack = <<>> THEN Append(called, "parseObject")
                          ELSE called
             /\ IF ShadowThrows(object, data)
                THEN /\ nodes' = Append(nodes, FieldsBeforeShadow(object, data))
                     /\ Raise("TypeError", id)
                ELSE /\ nodes' = Append(nodes, CommonFields(object, data))
                     /\ stack' = Append(stack, [rec |-> id, done |-> 0])
                     /\ UNCHANGED <<pc, error>>
    /\ UNCHANGED <<vocab, containers, images, fetching, onLoadGiven,
                   onLoadCalls, onLoadArg, result>>
    /\ UNCHANGED <<session, ssao, controls>>

\* parseObject(data) after the children loop: skeletons, post-processing,
\* return; the caller adds the returned child (line 1028) or, for the root
\* record, parse goes on.
ParseObjectReturn ==
    /\ pc = "parseObject"
    /\ stack # <<>>
    /\ Top.done = recs[Top.rec].nchildren
    /\ LET object == Top.rec
           r == PostProcess(nodes, object, recs[object], containers)
       IN IF r.raised
          THEN /\ nodes' = r.ns
               /\ Raise("TypeError", object)
          ELSE IF Len(stack) = 1
          THEN /\ nodes' = r.ns
               /\ stack' = <<>>
               /\ pc' = "complete"
               /\ UNCHANGED error
          ELSE LET parent == stack[Len(stack) - 1]
               IN /\ nodes' = Add(r.ns, parent.rec, object)
                  /\ stack' = [SubSeq(stack, 1, Len(stack) - 1)
                                  EXCEPT ![Len(stack) - 1].done = @ + 1]
                  /\ UNCHANGED <<pc, error>>
    /\ UNCHANGED <<vocab, budget, containers, images, fetching, onLoadGiven,
                   onLoadCalls, onLoadArg, recs, result, called>>
    /\ UNCHANGED <<session, ssao, controls>>

----------------------------------------------------------------------------
(* ObjectLoader.parse and the resource sub-loaders.                        *)

\* Variant of LoaderOrder: materials are parsed before textures.
LoaderOrderMaterialsFirst ==
    <<"parseResources", "parseShape", "parseGeometries", "parseImages",
      "parseVideos", "parseAudio", "parseFonts", "parseMaterials",
      "parseTextures", "parseObject">>

\* Lines 61-71: the calls parse makes, in order.
LoaderOrder == <<"parseResources", "parseShape", "parseGeometries",
                 "parseImages", "parseVideos", "parseAudio", "parseFonts",
                 "parseTextures", "parseMaterials", "parseObject">>

\* The statement of parse that follows the call of method.
After(method) == LoaderOrder[IndexOf(LoaderOrder, method, 1) + 1]

Forms == IF "resources" \in vocab.feats
         THEN {"undefined", "array", "mapping"} ELSE {"undefined"}

\* Variant of SubLoader: a record whose loader throws is skipped (the
\* skip-on-error policy of parseObject) and parse goes on.
SubLoaderSkipOnError(method, kind, forIn) ==
    /\ pc = method
    /\ \E form \in Forms, n \in 0..budget :
         \E badAt \in 0..n :
          LET visited == IF form = "undefined" \/ (form = "mapping" /\ ~forIn)
                         THEN 0 ELSE n
          IN /\ form = "undefined" => n = 0
             /\ containers' = [containers EXCEPT ![kind] =
                                  @ \cup {<<kind, doc, j>> : j \in (1..visited) \ {badAt}}]
             /\ budget' = budget - n
             /\ called' = Append(called, method)
             /\ IF kind = "images"
                THEN /\ images' = [form |-> form, n |-> n]
                     /\ fetching' = fetching + Cardinality((1..visited) \ {badAt})
                ELSE UNCHANGED <<images, fetching>>
             /\ pc' = After(method)
             /\ UNCHANGED <<error, stack>>
    /\ UNCHANGED <<vocab, onLoadGiven, onLoadCalls, onLoadArg, recs, nodes,
                   result>>
    /\ UNCHANGED <<session, ssao, controls>>

\* One sub-loader, called at position method of parse with the json value
\* [form, n records, the first record that makes its loader throw (0: none)].
\* forIn: the loop is for(i in json), else for(i = 0; i < json.length; i++),
\* which runs zero times on a mapping.  Records are stored under their uuid
\* (<<kind, doc, j>> for record j of document doc) one by one; a record that
\* throws ends parse with the error.
SubLoader(method, kind, forIn) ==
    /\ pc = method
    /\ \E form \in Forms, n \in 0..budget :
         \E badAt \in 0..n :
          LET visited == IF form = "undefined" \/ (form = "mapping" /\ ~forIn)
                         THEN 0 ELSE n
              thrown == badAt # 0 /\ badAt <= visited
              parsed == IF thrown THEN badAt - 1 ELSE visited
          IN /\ form = "undefined" => n = 0
             /\ containers' = [containers EXCEPT ![kind] =
                                  @ \cup {<<kind, doc, j>> : j \in 1..parsed}]
             /\ budget' = budget - n
             /\ called' = Append(called, method)
             /\ IF kind = "images"
                THEN /\ images' = [form |-> form, n |-> n]
                     /\ fetching' = fetching + parsed
                ELSE UNCHANGED <<images, fetching>>
             /\ IF thrown
                THEN Raise("ResourceError", 0)
                ELSE pc' = After(method) /\ UNCHANGED <<error, stack>>
    /\ UNCHANGED <<vocab, onLoadGiven, onLoadCalls, onLoadArg, recs, nodes,
                   result>>
    /\ UNCHANGED <<session, ssao, controls>>

parseResources == SubLoader("parseResources", "resources", TRUE)
parseShape == SubLoader("parseShape", "shapes", FALSE)
parseGeometries == SubLoader("parseGeometries", "geometries", FALSE)
parseImages == SubLoader("parseImages", "images", TRUE)
parseVideos == SubLoader("parseVideos", "videos", TRUE)
parseAudio == SubLoader("parseAudio", "audio", TRUE)
parseFonts == SubLoader("parseFonts", "fonts", TRUE)
parseTextures == SubLoader("parseTextures", "textures", TRUE)
parseMaterials == SubLoader("parseMaterials", "materials", TRUE)

\* Line 73: json.images === undefined || json.images.length === 0.  A
\* mapping has no length.
NoImages(json) ==
    json.form = "undefined" \/ (json.form = "array" /\ json.n = 0)

\* Lines 73-81 of parse: the completion check and the return.  The root
\* object is the first node built.
Complete ==
    /\ pc = "complete"
    /\ IF NoImages(images) /\ onLoadGiven
       THEN onLoadCalls' = onLoadCalls + 1 /\ onLoadArg' = 1
       ELSE UNCHANGED <<onLoadCalls, onLoadArg>>
    /\ result' = 1
    /\ pc' = "returned"
    /\ UNCHANGED <<vocab, budget, containers, images, fetching, onLoadGiven,
                   stack, recs, nodes, error, called>>
    /\ UNCHANGED <<session, ssao, controls>>

\* An image fetch started by ImageLoader.parse resolves, once the
\* synchronous parse has left the call stack.  parse hands onLoad to no one.
ImageFetched ==
    /\ pc \in {"returned", "raised"}
    /\ fetching > 0
    /\ fetching' = fetching - 1
    /\ UNCHANGED <<vocab, pc, budget, containers, images, onLoadGiven,
                   onLoadCalls, onLoadArg, stack, recs, nodes, result, error,
                   called>>
    /\ UNCHANGED <<session, ssao, controls>>

\* No SSAO pass and no planar controls have been constructed.
NoPass ==
    /\ kernelSize = 0
    /\ kernel = <<>>
    /\ noiseTexture = 0
    /\ uniforms = [kernel |-> "none", tNoise |-> 0]

NoControls ==
    /\ mode = "none"
    /\ orientation = <<0, 0>>
    /\ distance = 0
    /\ center = <<0, 0, 0>>
    /\ updates = 0
    /\ lastCall = [op |-> "none", right |-> FALSE, wheel |-> 0]

\* A new ObjectLoader on which parse(json, onLoad) has just been called.
Init ==
    /\ vocab \in Vocabs
    /\ pc = "parseResources"
    /\ budget = MaxDoc - 1
    /\ containers = EmptyContainers
    /\ images = [form |-> "unread", n |-> 0]
    /\ fetching = 0
    /\ onLoadGiven \in (IF "onLoad" \in vocab.feats THEN BOOLEAN ELSE {TRUE})
    /\ onLoadCalls = 0
    /\ onLoadArg = NoNode
    /\ stack = <<>>
    /\ recs = <<>>
    /\ nodes = <<>>
    /\ result = NoNode
    /\ error = [kind |-> "none", at |-> 0]
    /\ doc = 1
    /\ texturePath = <<>>
    /\ loading = <<>>
    /\ called = <<>>
    /\ NoPass
    /\ NoControls

Next ==
    \/ parseResources
    \/ parseShape
    \/ parseGeometries
    \/ parseImages
    \/ parseVideos
    \/ parseAudio
    \/ parseFonts
    \/ parseTextures
    \/ parseMaterials
    \/ ParseObjectEnter
    \/ ParseObjectReturn
    \/ Complete
    \/ ImageFetched

Spec == Init /\ [][Next]_vars

----------------------------------------------------------------------------
(* One loader used for several documents: load, setTexturePath and parse   *)
(* called again once a parse call has left the call stack.                 *)

SessionVocabs ==
    { [name |-> "reuse", types |-> {"Program", "Group"},
       feats |-> {"resources", "reparse"}],
      [name |-> "paths", types |-> {"Group"},
       feats |-> {"load"}] }

\* URLs and paths are strings of these characters.
Urls == { <<"x">>, <<"a", "/", "x">>, <<"a", "/", "b", "/", "x">>,
          <<"b", "/", "x">> }
Paths == { <<>>, <<"t", "/">> }

\* String.prototype.lastIndexOf: the 0-based index of the last c, or -1.
LastIndexOf(str, c) ==
    IF \E i \in 1..Len(str) : str[i] = c
    THEN (CHOOSE i \in 1..Len(str) :
              str[i] = c /\ \A j \in (i + 1)..Len(str) : str[j] # c) - 1
    ELSE -1

\* String.prototype.substring(from, to): the characters at the 0-based
\* indices from .. to - 1.
Substring(str, from, to) == SubSeq(str, from + 1, to)

\* No parse call is on the call stack.
Idle == pc \in {"idle", "returned", "raised"}

\* parse(json, onLoad) is called on the loader: a new document, whose root
\* record takes one unit, is read from its first statement on.  The
\* containers are the loader's own and are left as the calls before left
\* them; the locals of the call before are gone.
StartParse ==
    /\ budget >= 1
    /\ pc' = "parseResources"
    /\ doc' = doc + 1
    /\ budget' = budget - 1
    /\ images' = [form |-> "unread", n |-> 0]
    /\ onLoadCalls' = 0 /\ onLoadArg' = NoNode
    /\ stack' = <<>> /\ recs' = <<>> /\ nodes' = <<>>
    /\ result' = NoNode
    /\ error' = [kind |-> "none", at |-> 0]
    /\ called' = <<>>
    /\ UNCHANGED <<vocab, containers, fetching, onLoadGiven, texturePath>>

\* The caller calls parse directly.
ParseCall ==
    /\ Idle
    /\ "reparse" \in vocab.feats
    /\ doc + Len(loading) < MaxParses
    /\ StartParse
    /\ UNCHANGED <<loading, ssao, controls>>

\* Variant of Load: the base path is derived from every url loaded.
LoadAlwaysDerives ==
    /\ Idle
    /\ "load" \in vocab.feats
    /\ doc + Len(loading) < MaxParses
    /\ \E url \in Urls :
          /\ texturePath' = Substring(url, 0, LastIndexOf(url, "/") + 1)
          /\ loading' = Append(loading, url)
    /\ UNCHANGED <<vocab, pc, budget, containers, images, fetching,
                   onLoadGiven, onLoadCalls, onLoadArg, stack, recs, nodes,
                   result, error, doc, called>>
    /\ UNCHANGED <<ssao, controls>>

\* load(url, onLoad): lines 33-46.
Load ==
    /\ Idle
    /\ "load" \in vocab.feats
    /\ doc + Len(loading) < MaxParses
    /\ \E url \in Urls :
          /\ texturePath' =
                IF texturePath = <<>>
                THEN Substring(url, 0, LastIndexOf(url, "/") + 1)
                ELSE texturePath
          /\ loading' = Append(loading, url)
    /\ UNCHANGED <<vocab, pc, budget, containers, images, fetching,
                   onLoadGiven, onLoadCalls, onLoadArg, stack, recs, nodes,
                   result, error, doc, called>>
    /\ UNCHANGED <<ssao, controls>>

\* The callback given to FileLoader (lines 42-45): the text of one of the
\* urls in flight has arrived and parse is called on it.
FileLoaded ==
    /\ Idle
    /\ \E i \in 1..Len(loading) :
          /\ loading' = RemoveAt(loading, i)
          /\ StartParse
    /\ UNCHANGED <<ssao, controls>>

\* setTexturePath(path): lines 90-93.
SetTexturePath ==
    /\ Idle
    /\ "load" \in vocab.feats
    /\ \E path \in Paths \ {texturePath} : texturePath' = path
    /\ UNCHANGED <<vocab, pc, budget, containers, images, fetching,
                   onLoadGiven, onLoadCalls, onLoadArg, stack, recs, nodes,
                   result, error, doc, loading, called>>
    /\ UNCHANGED <<ssao, controls>>

\* A new ObjectLoader (lines 14-20) on which nothing has been called yet.
InitSession ==
    /\ vocab \in SessionVocabs
    /\ pc = "idle"
    /\ budget = MaxDoc
    /\ containers = EmptyContainers
    /\ images = [form |-> "unread", n |-> 0]
    /\ fetching = 0
    /\ onLoadGiven = TRUE
    /\ onLoadCalls = 0
    /\ onLoadArg = NoNode
    /\ stack = <<>>
    /\ recs = <<>>
    /\ nodes = <<>>
    /\ result = NoNode
    /\ error = [kind |-> "none", at |-> 0]
    /\ doc = 0
    /\ texturePath = <<>>
    /\ loading = <<>>
    /\ called = <<>>
    /\ NoPass
    /\ NoControls

NextSession ==
    \/ Next
    \/ ParseCall
    \/ Load
    \/ FileLoaded
    \/ SetTexturePath

SpecSession == InitSession /\ [][NextSession]_vars

----------------------------------------------------------------------------
(* SSAONOHPass: the kernelSize property and the sample kernel.             *)

\* No ObjectLoader is in use.
NoLoader ==
    /\ vocab = [name |-> "none", types |-> {}, feats |-> {}]
    /\ pc = "idle"
    /\ budget = 0
    /\ containers = EmptyContainers
    /\ images = [form |-> "unread", n |-> 0]
    /\ fetching = 0
    /\ onLoadGiven = FALSE
    /\ onLoadCalls = 0
    /\ onLoadArg = NoNode
    /\ stack = <<>>
    /\ recs = <<>>
    /\ nodes = <<>>
    /\ result = NoNode
    /\ error = [kind |-> "none", at |-> 0]
    /\ doc = 0
    /\ texturePath = <<>>
    /\ loading = <<>>
    /\ called = <<>>

\* The kernel size the constructor assigns (line 188).
DefaultKernelSize == 64

\* Values assigned to kernelSize after construction.
KernelSizes == 1..4

\* The array created at line 33, which this.kernel refers to ever after.
KernelArray == "this.kernel"

\* generateSampleKernel (lines 201-216) on the array k with _kernelSize
\* size: sample i, scaled by lerp(0.1, 1, (i / size)^2), is pushed for
\* i = 0 .. size - 1.  A sample is kept as <<i, size>>, which fixes its
\* scale; its random direction is left out.
GenerateSampleKernel(k, size) == k \o [j \in 1..size |-> <<j - 1, size>>]

\* The setter of kernelSize (lines 177-184): the size is stored, samples
\* and a new noise texture are generated, and both uniforms are set.
SetKernelSize ==
    \E value \in KernelSizes :
        /\ Len(kernel) + value <= MaxKernel
        /\ kernelSize' = value
        /\ kernel' = GenerateSampleKernel(kernel, value)
        /\ noiseTexture' = noiseTexture + 1
        /\ uniforms' = [kernel |-> KernelArray, tNoise |-> noiseTexture + 1]
        /\ UNCHANGED <<loader, controls>>

\* A new SSAONOHPass: the constructor creates the empty kernel (line 33),
\* sets _kernelSize to 0 (line 126) and assigns kernelSize = 64 (line 188).
InitSSAO ==
    /\ NoLoader
    /\ NoControls
    /\ kernelSize = DefaultKernelSize
    /\ kernel = GenerateSampleKernel(<<>>, DefaultKernelSize)
    /\ noiseTexture = 1
    /\ uniforms = [kernel |-> KernelArray, tNoise |-> 1]

NextSSAO == SetKernelSize

SpecSSAO == InitSSAO /\ [][NextSSAO]_vars

----------------------------------------------------------------------------
(* EditorPlanarControls.  Angles are in hundredths of a radian (Math.PI is *)
(* 314, Math.PI / 2 and 1.57 are 157); a mouse delta and the wheel are     *)
(* taken with the editor's sensitivity setting already multiplied in.      *)

\* Settings.PLANAR_FRONT ... Settings.PLANAR_BOTTOM, and any other value.
PlanarModes == {"FRONT", "BACK", "LEFT", "RIGHT", "TOP", "BOTTOM"}
ModeValues == PlanarModes \cup {"OTHER"}

Deltas == {-1, 0, 1}
Wheels == {-1, 0, 1}

\* EditorOrbitControls.updateControls, as far as it writes the fields
\* modelled here: the vertical orientation is kept within limitDown and
\* limitUp (-1.57 and 1.57).
ClampOrientation(o) ==
    <<o[1], IF o[2] < -157 THEN -157 ELSE IF o[2] > 157 THEN 157 ELSE o[2]>>

\* getWorldDirection with y set to 0 and normalized, as <<x, z>>: the
\* controls look at their center from the side orientation[1] puts them.
Direction(o) ==
    CASE o[1] = 157 -> <<0, -1>>
      [] o[1] = -157 -> <<0, 1>>
      [] o[1] = 0 -> <<-1, 0>>
      [] OTHER -> <<1, 0>>

\* Vector3.applyAxisAngle(UP, 1.57) on a horizontal direction <<x, z>>.
QuarterTurn(d) == <<d[2], -d[1]>>

\* Lines 19-42: the orientation setMode writes for a mode; none for a
\* value that is no planar mode.
ModeOrientation(m, o) ==
    CASE m = "FRONT" -> <<157, 0>>
      [] m = "BACK" -> <<-157, 0>>
      [] m = "LEFT" -> <<0, 0>>
      [] m = "RIGHT" -> <<314, 0>>
      [] m = "TOP" -> <<314, 157>>
      [] m = "BOTTOM" -> <<314, -157>>
      [] OTHER -> o

\* setMode(mode): lines 15-45.
SetMode ==
    /\ updates < MaxUpdates
    /\ \E m \in ModeValues :
          /\ mode' = m
          /\ orientation' = ClampOrientation(ModeOrientation(m, orientation))
          /\ lastCall' = [op |-> "setMode", right |-> FALSE, wheel |-> 0]
    /\ updates' = updates + 1
    /\ UNCHANGED <<distance, center, loader, ssao>>

\* Variant of SetOrientation: the method of EditorOrbitControls, which
\* turns the controls to the side a code names, is not overridden.
SetOrientationInherited ==
    /\ updates < MaxUpdates
    /\ \E code \in PlanarModes :
          orientation' = ClampOrientation(ModeOrientation(code, orientation))
    /\ lastCall' = [op |-> "setOrientation", right |-> FALSE, wheel |-> 0]
    /\ updates' = updates + 1
    /\ UNCHANGED <<mode, distance, center, loader, ssao>>

\* setOrientation(code): line 13, an empty body.
SetOrientation ==
    /\ lastCall' = [op |-> "setOrientation", right |-> FALSE, wheel |-> 0]
    /\ UNCHANGED <<mode, orientation, distance, center, updates, loader,
                   ssao>>

\* reset(): lines 47-52.
Reset ==
    /\ updates < MaxUpdates
    /\ distance' = 10
    /\ center' = <<0, 0, 0>>
    /\ orientation' = ClampOrientation(orientation)
    /\ updates' = updates + 1
    /\ lastCall' = [op |-> "reset", right |-> FALSE, wheel |-> 0]
    /\ UNCHANGED <<mode, loader, ssao>>

\* Lines 58-83: the center after a drag with the right button, by dx, dy.
Dragged(c, o, m, d, dx, dy) ==
    LET direction == Direction(o)
        y == dy * d
        c1 == IF m \in {"TOP", "BOTTOM"}
              THEN <<c[1] - direction[1] * y, c[2], c[3] - direction[2] * y>>
              ELSE <<c[1], c[2] + y, c[3]>>
        turned == QuarterTurn(direction)
        x == dx * d
    IN <<c1[1] - turned[1] * x, c1[2], c1[3] - turned[2] * x>>

\* update(mouse, keyboard): lines 54-144.
Update ==
    \E right \in BOOLEAN, dx \in Deltas, dy \in Deltas, wheel \in Wheels :
        LET needsUpdate == right \/ wheel # 0
            c == IF right
                 THEN Dragged(center, orientation, mode, distance, dx, dy)
                 ELSE center
            d == IF wheel # 0 THEN distance + wheel * distance ELSE distance
        IN /\ needsUpdate => updates < MaxUpdates
           /\ d <= MaxDistance
           /\ \A k \in 1..3 : Abs(c[k]) <= MaxCenter
           /\ center' = c
           /\ distance' = d
           /\ IF needsUpdate
              THEN /\ updates' = updates + 1
                   /\ orientation' = ClampOrientation(orientation)
              ELSE UNCHANGED <<updates, orientation>>
           /\ lastCall' = [op |-> "update", right |-> right, wheel |-> wheel]
           /\ UNCHANGED <<mode, loader, ssao>>

\* new EditorPlanarControls(mode): lines 4-9.  EditorOrbitControls leaves
\* the controls at distance 10 from the origin with orientation (0, 0);
\* setMode is then called with the mode given, PLANAR_LEFT by default.
InitControls ==
    /\ NoLoader
    /\ NoPass
    /\ mode \in ModeValues
    /\ orientation = ClampOrientation(ModeOrientation(mode, <<0, 0>>))
    /\ distance = 10
    /\ center = <<0, 0, 0>>
    /\ updates = 1
    /\ lastCall = [op |-> "setMode", right |-> FALSE, wheel |-> 0]

NextControls ==
    \/ SetMode
    \/ SetOrientation
    \/ Reset
    \/ Update

SpecControls == InitControls /\ [][NextControls]_vars

----------------------------------------------------------------------------
(* Vocabulary of the properties.                                           *)

Built == 1..Len(nodes)

\* parseObject has just returned node i: to the children loop of its
\* parent, which has not gone on yet, or to parse.
JustReturned(i) ==
    \/ pc = "complete" /\ i = 1
    \/ /\ pc = "parseObject" /\ stack # <<>> /\ Top.done > 0
       /\ i = nodes[Top.rec].children[Len(nodes[Top.rec].children)]

\* The records of the children map of record i, in document order.
RECURSIVE ChildRecordsFrom(_, _)
ChildRecordsFrom(i, j) ==
    IF j > Len(recs) THEN <<>>
    ELSE (IF recs[j].parent = i THEN <<j>> ELSE <<>>)
         \o ChildRecordsFrom(i, j + 1)

ChildRecords(i) == ChildRecordsFrom(i, 1)

\* The records enclosing record i, itself included.
RECURSIVE Enclosing(_)
Enclosing(i) == IF i = NoNode THEN {} ELSE {i} \cup Enclosing(recs[i].parent)

\* The nodes of the tree under node i, itself included, by parent links.
RECURSIVE Above(_)
Above(n) == IF n = NoNode THEN {} ELSE {n} \cup Above(nodes[n].parent)

Subtree(i) == {n \in Built : i \in Above(n)}

Unknown(type) == type \notin {"Program", "Scene", "LOD", "DirectionalLight",
                              "SkinnedMesh", "Mesh", "Bone",
                              "PerspectiveCamera", "Group"}

\* The node of uuid u in the tree under node i, NoNode if there is none
\* (uuids are unique within a document).
NodeOf(i, u) ==
    IF \E n \in Subtree(i) : nodes[n].uuid = u
    THEN CHOOSE n \in Subtree(i) : nodes[n].uuid = u
    ELSE NoNode

\* The entries of list whose uuid (taken by Key) names a node under i.
RECURSIVE Resolving(_, _, _, _)
Resolving(i, list, Key(_), j) ==
    IF j > Len(list) THEN <<>>
    ELSE (IF NodeOf(i, Key(list[j])) # NoNode THEN <<list[j]>> ELSE <<>>)
         \o Resolving(i, list, Key, j + 1)

Self(u) == u
ObjectOf(level) == level.object

Occurrences(s, e) == Cardinality({k \in 1..Len(s) : s[k] = e})

----------------------------------------------------------------------------
(* Claims.                                                                 *)

\* C1 (as claimed): a node record whose variant construction throws, of any
\* type and at any depth, never makes parseObject raise: the invocation for
\* that record goes on with a generic group node carrying the record's uuid.
C1_FailureContained ==
    \A i \in Built :
        recs[i].throws =>
            /\ error.at # i
            /\ nodes[i].kind = "Container"
            /\ nodes[i].uuid = recs[i].uuid

\* C2 (as claimed): when parseObject returns a Scene, its cameras list is
\* exactly the camera nodes of the declared uuids that resolve in the
\* scene's tree, in declared order, with no raw uuid left.
C2_CamerasResolved ==
    \A i \in Built :
        JustReturned(i) /\ nodes[i].kind = "Scene" =>
            LET want == Resolving(i, recs[i].cameras, Self, 1)
            IN nodes[i].cameras =
                   [k \in 1..Len(want) |-> CameraNode(NodeOf(i, want[k]))]

\* C3 (as claimed): when parseObject returns a LOD, it has one level per
\* levels entry whose uuid resolves, with that entry's distance, each level
\* referring to a child of the LOD and never to the LOD itself.
C3_LevelsBound ==
    \A i \in Built :
        JustReturned(i) /\ nodes[i].kind = "LOD" =>
            LET want == Resolving(i, recs[i].levels, ObjectOf, 1)
                expected == [k \in 1..Len(want) |->
                                [distance |-> want[k].distance,
                                 object |-> NodeOf(i, want[k].object)]]
                got == nodes[i].levels
            IN /\ Len(got) = Len(expected)
               /\ \A k \in 1..Len(got) :
                     /\ Occurrences(got, got[k]) = Occurrences(expected, got[k])
                     /\ got[k].object # i
                     /\ nodes[got[k].object].parent = i

\* The uuids a skeletons block declares.
Declared(block) == {block[k].uuid : k \in 1..Len(block)}

\* C4 (as claimed): once parse has returned, every skinned mesh whose
\* skeleton uuid is declared by the skeletons block of its own record or of
\* an enclosing record is bound to the Skeleton of that uuid, whatever other
\* blocks the records on the path declare.
C4_SkeletonResolved ==
    pc = "returned" =>
        \A i \in Built :
            ( /\ nodes[i].kind = "SkinnedMesh"
              /\ recs[i].skeleton # Undefined
              /\ \E a \in Enclosing(i) :
                    recs[a].hasSkeletons
                    /\ recs[i].skeleton \in Declared(recs[a].skeletons) )
            => nodes[i].skeleton.key = recs[i].skeleton

\* The last entry of block that declares uuid u.
LastEntry(block, u) ==
    block[CHOOSE k \in 1..Len(block) :
              /\ block[k].uuid = u
              /\ \A m \in (k + 1)..Len(block) : block[m].uuid # u]

\* skeleton is what the entry [uuid, bones] must give over the tree under
\* node i: as many bones and bone inverses as the entry lists bones, bone j
\* being the node of uuid bones[j] under i, or a bone of no tree.
BuiltFrom(skeleton, entry, i) ==
    /\ skeleton.key = entry.uuid
    /\ Len(skeleton.bones) = Len(entry.bones)
    /\ skeleton.boneInverses = Len(entry.bones)
    /\ \A j \in 1..Len(entry.bones) :
          skeleton.bones[j] = NodeOf(i, entry.bones[j])

C6_SynchronousCompletion ==
    pc = "returned" /\ onLoadGiven /\ images.n = 0 =>
        onLoadCalls = 1 /\ onLoadArg = result

\* C7 (as claimed): for a document that declares at least one image, parse
\* does not invoke onLoad before it returns, and once the pending image
\* fetches have resolved onLoad has been invoked once with the tree.
C7_DeferredCompletion ==
    onLoadGiven /\ images.n > 0 =>
        /\ pc # "returned" => onLoadCalls = 0
        /\ pc = "returned" /\ fetching = 0 =>
              onLoadCalls = 1 /\ onLoadArg = result

LoaderMethods == {LoaderOrder[k] : k \in 1..9}
IndexedMethods == {"parseShape", "parseGeometries"}

ContainerOf(method) ==
    CASE method = "parseResources" -> "resources"
      [] method = "parseShape" -> "shapes"
      [] method = "parseGeometries" -> "geometries"
      [] method = "parseImages" -> "images"
      [] method = "parseVideos" -> "videos"
      [] method = "parseAudio" -> "audio"
      [] method = "parseFonts" -> "fonts"
      [] method = "parseTextures" -> "textures"
      [] method = "parseMaterials" -> "materials"

\* C8: a sub-loader step either stores every record it is given (an indexed
\* loop given a mapping stores none) and parse goes on, or a record throws:
\* then parse raises the error at once, with no node built, no tree
\* returned and onLoad not called, and nothing of that changes afterwards.
C8_ResourceErrorsFatal ==
    [][ /\ pc \in LoaderMethods =>
             LET kind == ContainerOf(pc)
                 stored == Cardinality(containers'[kind])
                           - Cardinality(containers[kind])
                 read == budget - budget'
             IN \/ /\ pc' = After(pc)
                   /\ error'.kind = "none"
                   /\ stored = read \/ (pc \in IndexedMethods /\ stored = 0)
                \/ /\ pc' = "raised"
                   /\ error'.kind = "ResourceError"
                   /\ stored < read
                   /\ nodes' = <<>> /\ recs' = <<>>
                   /\ result' = NoNode /\ onLoadCalls' = 0
        /\ error.kind = "ResourceError" =>
             /\ pc' = "raised"
             /\ UNCHANGED <<nodes, recs, result, onLoadCalls, error>>
      ]_vars

\* The second record of a sub-loader threw after the first was stored, and
\* parse has raised before parseObject was called.
C8_Witness ==
    /\ pc = "raised"
    /\ error.kind = "ResourceError"
    /\ nodes = <<>>
    /\ \E k \in Kinds : containers[k] # {}

\* C9 (as claimed): a record of unknown type, with any of the common
\* fields, never makes parseObject raise: it yields a generic group node
\* with the record's uuid and its children built and attached.
C9_UnknownTypeFallback ==
    \A i \in Built :
        Unknown(recs[i].type) =>
            /\ error.at # i
            /\ nodes[i].kind = "Container"
            /\ nodes[i].uuid = recs[i].uuid
            /\ JustReturned(i) => nodes[i].children = ChildRecords(i)

\* C10 (as claimed): when parseObject returns a node, of any type, its
\* children are exactly the nodes built from the records of its children
\* map, one each, in the order of the map, each with its record's uuid.
C10_ChildOrder ==
    \A i \in Built :
        JustReturned(i) =>
            /\ nodes[i].children = ChildRecords(i)
            /\ \A k \in 1..Len(nodes[i].children) :
                  LET c == nodes[i].children[k]
                  IN nodes[c].uuid = recs[c].uuid /\ nodes[c].parent = i

\* C11: every node parseObject builds, fallback group or not, is visible
\* exactly when its record's visible field is the boolean true (so not when
\* the field is absent, false or any other value), and casts / receives
\* shadows exactly when castShadow / receiveShadow is the boolean true (so
\* not when absent).  A record on which parseObject raised at data.shadow
\* built no node and is not constrained on visible.
C11_RenderFlagDefaults ==
    \A i \in Built :
        /\ nodes[i].castShadow = (recs[i].castShadow = "true")
        /\ nodes[i].receiveShadow = (recs[i].receiveShadow = "true")
        /\ ~(error.at = i /\ ShadowThrows(nodes[i], recs[i])) =>
              nodes[i].visible = (recs[i].visible = "true")

\* parseObject returned a fallback group for a record without a visible
\* field, with a child whose visible field is neither true nor false; both
\* nodes are invisible.
C11_Witness ==
    \E i, j \in Built :
        /\ pc = "complete"
        /\ recs[i].throws /\ nodes[i].kind = "Container"
        /\ recs[i].visible = Undefined /\ ~nodes[i].visible
        /\ recs[j].parent = i
        /\ recs[j].visible = "other" /\ ~nodes[j].visible
        /\ recs[j].castShadow = Undefined /\ ~nodes[j].castShadow

\* The resources of containers cs that document d did not declare.
Foreign(cs, d) == UNION { {r \in cs[k] : r[2] # d} : k \in Kinds }

\* C12 (as claimed): in every parse call made through one loader, the
\* loader's resource containers, and the containers absorbed by a Program
\* built in that call, hold only resources declared by the document of that
\* call, never one of a document parsed before.
C12_DocumentIsolation ==
    doc >= 1 =>
        /\ Foreign(containers, doc) = {}
        /\ \A i \in Built :
              nodes[i].kind = "Program" => Foreign(nodes[i].resources, doc) = {}

\* The value a node field takes from a record field when it is present,
\* and otherwise keeps.
Overwrite(field, kept) == IF field = <<>> THEN kept ELSE field[1]

\* C13 (as claimed): for a record with a matrix, each of position,
\* rotation, quaternion and scale of the node is the record's field when it
\* is present and the value decomposed from the matrix when it is absent.
C13_PerFieldPrecedence ==
    \A i \in Built :
        recs[i].matrix # <<>> =>
            LET d == Decompose(recs[i].matrix[1])
            IN /\ nodes[i].position = Overwrite(recs[i].position, d.position)
               /\ nodes[i].scale = Overwrite(recs[i].scale, d.scale)
               /\ nodes[i].quaternion =
                      Overwrite(recs[i].quaternion, d.quaternion)
               /\ nodes[i].rotation =
                      Overwrite(recs[i].rotation,
                                EulerFromQuaternion(d.quaternion))

\* C13 (amended): for a record with a matrix, position and scale of the
\* node are the record's field when present and the value decomposed from
\* the matrix otherwise; rotation and quaternion are one orientation: that
\* of the record's quaternion when present, else that of the record's
\* rotation when present, else the one decomposed from the matrix, and the
\* node's rotation and quaternion always agree.
C13_TransformPrecedence ==
    \A i \in Built :
        recs[i].matrix # <<>> =>
            LET d == Decompose(recs[i].matrix[1])
                fromRotation ==
                    IF recs[i].rotation = <<>> THEN d.quaternion
                    ELSE QuaternionFromEuler(recs[i].rotation[1])
            IN /\ nodes[i].position = Overwrite(recs[i].position, d.position)
               /\ nodes[i].scale = Overwrite(recs[i].scale, d.scale)
               /\ nodes[i].quaternion =
                      Overwrite(recs[i].quaternion, fromRotation)
               /\ nodes[i].rotation = EulerFromQuaternion(nodes[i].quaternion)

\* A node built from a half-turn matrix with scale 2, an explicit position
\* and an explicit rotation of 0 and nothing else: the position is the
\* explicit one, the scale the decomposed one, the orientation the
\* explicit rotation's.
C13_Witness ==
    \E i \in Built :
        /\ recs[i].matrix = << <<-2, -2, 4>> >>
        /\ recs[i].position # <<>> /\ recs[i].rotation = <<0>>
        /\ recs[i].quaternion = <<>> /\ recs[i].scale = <<>>
        /\ nodes[i].position = 7 /\ nodes[i].scale = <<2, 2>>
        /\ nodes[i].quaternion = <<0, 1>> /\ nodes[i].rotation = 0

\* Method a was called, in this parse call, before every call of method b.
CalledBefore(a, b) ==
    \A j \in 1..Len(called) :
        called[j] = b => \E i \in 1..(j - 1) : called[i] = a

NineLoaders == {"parseResources", "parseShape", "parseGeometries",
                "parseImages", "parseVideos", "parseAudio", "parseFonts",
                "parseTextures", "parseMaterials"}

\* C14: in every parse call, images and videos are parsed before textures,
\* textures before materials, shapes before geometries, a container is
\* filled only by its own sub-loader, and parseObject is invoked on the
\* root record, and any node built, only after all nine sub-loaders
\* have been called and have returned.
C14_ResourceOrder ==
    /\ CalledBefore("parseImages", "parseTextures")
    /\ CalledBefore("parseVideos", "parseTextures")
    /\ CalledBefore("parseTextures", "parseMaterials")
    /\ CalledBefore("parseShape", "parseGeometries")
    /\ \A m \in NineLoaders :
          /\ CalledBefore(m, "parseObject")
          /\ (\E r \in containers[ContainerOf(m)] : r[2] = doc) =>
                \E j \in 1..Len(called) : called[j] = m
          /\ Occurrences(called, m) <= 1
    /\ (nodes # <<>> \/ recs # <<>>) =>
          /\ called[Len(called)] = "parseObject"
          /\ Len(called) = 10

\* parse has returned the tree of a document with a texture record and a
\* material record, and every sub-loader ran once.
C14_Witness ==
    /\ pc = "returned"
    /\ containers["textures"] # {} /\ containers["materials"] # {}
    /\ Len(called) = 10
    /\ nodes # <<>>

\* The resources in cs that the document of the current parse call declared.
OfDocument(cs, k) == {r \in cs[k] : r[2] = doc}

\* C15: when parse returns the tree of a document whose root record is a
\* Program, the Program holds in each of its containers every resource the
\* sub-loaders stored from the document; and a node's containers are
\* filled only by the step of its own parseObject invocation that follows
\* its children loop, when every child record has been built and attached.
C15_ProgramAbsorbs ==
    [][ /\ (pc' = "returned" /\ recs'[1].type = "Program") =>
              \A k \in Kinds :
                  OfDocument(containers', k) \subseteq nodes'[1].resources[k]
        /\ Len(nodes') >= Len(nodes) =>
              \A i \in 1..Len(nodes) :
                  nodes'[i].resources # nodes[i].resources =>
                      /\ stack # <<>> /\ Top.rec = i
                      /\ recs[i].type = "Program"
                      /\ Len(ChildRecords(i)) = recs[i].nchildren
                      /\ nodes[i].children = ChildRecords(i)
                      /\ \A c \in Subtree(i) \ {i} :
                            Len(ChildRecords(c)) = recs[c].nchildren
      ]_vars

\* parse has returned a Program with a child, holding a resource of the
\* document.
C15_Witness ==
    /\ pc = "returned"
    /\ recs[1].type = "Program" /\ nodes[1].kind = "Program"
    /\ nodes[1].children # <<>>
    /\ \E k \in Kinds : OfDocument(containers, k) # {}
                        /\ OfDocument(containers, k) \subseteq nodes[1].resources[k]

\* C16 (as claimed): for a record with an animations array of N clip
\* records, parseAnimations returns the N clips in input order, and the
\* node parseObject returns has exactly those N clips in that order.
C16_AnimationsPreserved ==
    \A i \in Built :
        JustReturned(i) /\ recs[i].hasAnimations =>
            LET clips == [k \in 1..Len(recs[i].animations) |->
                             AnimationClipParse(recs[i].animations[k])]
            IN /\ parseAnimations(recs[i].animations) = clips
               /\ nodes[i].animations = clips

\* C17 (as claimed): a Scene record that carries the node record of a
\* default camera never makes parseObject raise or fall back: the node is a
\* Scene whose defaultCamera is the camera built from that record.
C17_DefaultCamera ==
    \A i \in Built :
        ( /\ recs[i].type = "Scene" /\ ~recs[i].throws
          /\ recs[i].defaultCamera.form = "record" )
        => /\ nodes[i].kind = "Scene"
           /\ Len(nodes[i].defaultCamera) = 1
           /\ nodes[i].defaultCamera[1].kind = "PerspectiveCamera"
           /\ nodes[i].defaultCamera[1].uuid = recs[i].defaultCamera.record.uuid
           /\ error.at # i

\* C18 (as claimed): after construction and after any assignments to
\* kernelSize, the kernel of an SSAO pass holds exactly kernelSize sample
\* vectors and the shader's kernel uniform refers to that kernel.
C18_KernelSize ==
    uniforms.kernel = KernelArray =>
        /\ Len(kernel) = kernelSize
        /\ \A j \in 1..Len(kernel) : kernel[j] = <<j - 1, kernelSize>>

\* p is the prefix of url up to and including its last "/" (the empty
\* string when url has none).
IsBasePath(p, url) ==
    /\ Len(p) <= Len(url)
    /\ \A j \in 1..Len(p) : p[j] = url[j]
    /\ p # <<>> => p[Len(p)] = "/"
    /\ \A j \in (Len(p) + 1)..Len(url) : url[j] # "/"

AssignedOrientation(m) ==
    CASE m = "FRONT" -> <<157, 0>>
      [] m = "BACK" -> <<-157, 0>>
      [] m = "LEFT" -> <<0, 0>>
      [] m = "RIGHT" -> <<314, 0>>
      [] m = "TOP" -> <<314, 157>>
      [] m = "BOTTOM" -> <<314, -157>>

\* C20: from construction on, whenever mode is one of the six planar modes
\* the orientation is the one setMode assigns for it; a call of
\* setOrientation, reset or update changes neither mode nor orientation;
\* reset leaves the distance at 10 and the center at the origin; and update
\* calls updateControls exactly when the right button is pressed or the
\* wheel is not zero.
C20_OrientationOfMode ==
    /\ [](mode \in PlanarModes => orientation = AssignedOrientation(mode))
    /\ [][ /\ lastCall'.op \in {"setOrientation", "reset", "update"} =>
                 mode' = mode /\ orientation' = orientation
           /\ lastCall'.op = "setOrientation" => updates' = updates
           /\ lastCall'.op = "reset" =>
                 distance' = 10 /\ center' = <<0, 0, 0>>
           /\ lastCall'.op = "update" =>
                 updates' = IF lastCall'.right \/ lastCall'.wheel # 0
                            THEN updates + 1 ELSE updates
         ]_vars

\* The controls are in TOP mode, were dragged off the origin and zoomed
\* out, and setOrientation has just been called: the orientation is still
\* the one of TOP.
C20_Witness ==
    /\ mode = "TOP"
    /\ orientation = <<314, 157>>
    /\ lastCall.op = "setOrientation"
    /\ center # <<0, 0, 0>>
    /\ distance = 20

====
